---- MODULE Spec2Model ----
(***************************************************************************)
(* The semantic diff of codebase_time_machine: two revisions of a Python   *)
(* source file are parsed, a visitor extracts their declarations, and the  *)
(* two extractions are compared into an ordered list of change records.    *)
(*                                                                         *)
(* Three implementations of identify_semantic_changes are modelled:        *)
(*   "rename"  src/src/1/1.2/1.2.2/1.2.2.3/                                *)
(*             identify_semantic_changes_implementation.py                 *)
(*             (CodeVisitor, dependency diff, find_structure_changes)      *)
(*   "scoped"  src/src/1/1.3/1.3.2/1.3.2.2/__init___implementation.py      *)
(*             (_CodeStructureVisitor, per-scope diff, signatures)         *)
(*   "pipeline" src/src/1/1.2/integration_test_1_2.py                      *)
(*             (ast.walk, added / removed / modified definitions)          *)
(*                                                                         *)
(* Identifiers are the integers 1..n; their lexical order (the order of    *)
(* Python's sorted() on str) is the order of the integers.                 *)
(*                                                                         *)
(* Specifications:                                                         *)
(*   Spec          one call of either implementation                       *)
(*   SpecTwice     a call, then a call on the same or exchanged revisions  *)
(*   SpecPermuted  a call, then a call on the reordered revisions          *)
(*   SpecScoped    one call of "scoped", parameter lists and methods vary  *)
(*   SpecDoc       one call of "rename", function bodies with docstrings   *)
(*   SpecNested    one call of either, definitions nested in definitions   *)
(*   SpecScopedSwapped  "scoped", then "scoped" on exchanged revisions     *)
(*   SpecPipeline  one call of "pipeline", texts with comment lines        *)
(***************************************************************************)
EXTENDS Integers, Sequences, FiniteSets, TLC

\* ------------------------------------------------------------------------
\* Bounds of the input universe
\* ------------------------------------------------------------------------
MaxFunc == 4
MaxClass == 2
MaxMod == 3
MaxStmts == 2
MaxMsg == 2

\* Python's None
None == 0 - 1

FuncNames == 1..MaxFunc
ClassNames == 1..MaxClass
ModNames == 1..MaxMod

\* ------------------------------------------------------------------------
\* Source text: a revision is either malformed (the parser will reject it
\* with message msg) or a sequence of statements, one header line each.
\* ------------------------------------------------------------------------
SrcStmt(type, name, args, body, names, module, value) ==
    [type |-> type, name |-> name, args |-> args, body |-> body,
     names |-> names, module |-> module, value |-> value]

\* "pass"
SPass == SrcStmt("Pass", None, <<>>, <<>>, <<>>, None, 0)
\* an ordinary statement of shape k, such as "return 1 + 2"
SExpr(k) == SrcStmt("Expr", None, <<>>, <<>>, <<>>, None, k)
\* "def name(args): body"
SFunctionDef(name, args, body) == SrcStmt("FunctionDef", name, args, body, <<>>, None, 0)
\* "class name: body"
SClassDef(name, body) == SrcStmt("ClassDef", name, <<>>, body, <<>>, None, 0)
\* "import a, b"
SImport(names) == SrcStmt("Import", None, <<>>, <<>>, names, None, 0)
\* "from module import a, b"  (module = None for "from . import a")
SImportFrom(module, names) == SrcStmt("ImportFrom", None, <<>>, <<>>, names, module, 0)

SimpleBodies == {<<SPass>>, <<SExpr(1)>>}

TopFunctions == {SFunctionDef(n, <<>>, b) : n \in FuncNames, b \in SimpleBodies}

ClassBodies == {<<SPass>>, <<SFunctionDef(1, <<1>>, <<SExpr(1)>>)>>}

TopClasses == {SClassDef(n, b) : n \in ClassNames, b \in ClassBodies}

TopImports ==
    {SImport(<<m>>) : m \in ModNames}
        \cup {SImportFrom(m, <<MaxMod>>) : m \in {None, 1}}

TopStmts == TopFunctions \cup TopClasses \cup TopImports

SeqsUpTo(S, n) == UNION {[1..k -> S] : k \in 0..n}

WellFormed == {[malformed |-> FALSE, msg |-> 0, stmts |-> s] : s \in SeqsUpTo(TopStmts, MaxStmts)}

Malformed == {[malformed |-> TRUE, msg |-> m, stmts |-> <<>>] : m \in 1..MaxMsg}

Sources == WellFormed \cup Malformed

\* ------------------------------------------------------------------------
\* A second universe of revisions, for the scoped implementation: global
\* functions and classes with methods, the parameter lists varying. Every
\* function body is the same statement. A declaration is chosen present
\* (<<params>>) or absent (<<>>).
\* ------------------------------------------------------------------------
MaxGlobal == 2
MaxMethod == 2

Opt(S) == {<<>>} \cup {<<x>> : x \in S}

\* (a), (a, b), (b, a)
GlobalParams == {<<1>>, <<1, 2>>, <<2, 1>>}

\* class 1 has up to MaxMethod methods, the other classes one
MethodNames(class_name) == IF class_name = 1 THEN 1..MaxMethod ELSE {1}

\* (self) or (self, x) for the first method of class 1, (self) otherwise
MethodParams(class_name, method_name) ==
    IF class_name = 1 /\ method_name = 1 THEN {<<1>>, <<1, 2>>} ELSE {<<1>>}

GlobalChoices == [1..MaxGlobal -> Opt(GlobalParams)]

MethodChoices(class_name) ==
    {c \in [MethodNames(class_name) -> Opt({<<1>>, <<1, 2>>})] :
        \A m \in MethodNames(class_name) : c[m] \in Opt(MethodParams(class_name, m))}

ClassChoices ==
    {c \in [1..MaxClass -> Opt(UNION {MethodChoices(n) : n \in 1..MaxClass})] :
        \A n \in 1..MaxClass : c[n] \in Opt(MethodChoices(n))}

\* the def statements of the names from n on that choice declares
RECURSIVE FunctionDefs(_, _, _)
FunctionDefs(choice, n, last) ==
    IF n > last THEN <<>>
    ELSE (IF choice[n] = <<>> THEN <<>>
          ELSE <<SFunctionDef(n, choice[n][1], <<SExpr(1)>>)>>)
         \o FunctionDefs(choice, n + 1, last)

\* "class n:" followed by its methods, or by pass when it has none
ClassDefOf(n, methods) ==
    LET defs == FunctionDefs(methods, 1, Cardinality(DOMAIN methods)) IN
    SClassDef(n, IF defs = <<>> THEN <<SPass>> ELSE defs)

RECURSIVE ClassDefs(_, _)
ClassDefs(choice, n) ==
    IF n > MaxClass THEN <<>>
    ELSE (IF choice[n] = <<>> THEN <<>> ELSE <<ClassDefOf(n, choice[n][1])>>)
         \o ClassDefs(choice, n + 1)

ScopedWellFormed ==
    {[malformed |-> FALSE, msg |-> 0,
      stmts |-> FunctionDefs(g, 1, MaxGlobal) \o ClassDefs(c, 1)] :
        g \in GlobalChoices, c \in ClassChoices}

ScopedSources == ScopedWellFormed \cup Malformed

\* ------------------------------------------------------------------------
\* A third universe of revisions, for the rename-detecting implementation:
\* functions whose body may begin with a docstring
\* ------------------------------------------------------------------------
MaxDoc == 2

\* an expression statement that is a string constant: """text"""
SDocstring(text) == SrcStmt("Docstring", None, <<>>, <<>>, <<>>, None, text)

DocBodies == {<<SExpr(1)>>} \cup {<<SDocstring(d), SExpr(1)>> : d \in 1..MaxDoc}

DocFunctions == {SFunctionDef(n, <<>>, b) : n \in FuncNames, b \in DocBodies}

DocSources ==
    {[malformed |-> FALSE, msg |-> 0, stmts |-> s] : s \in SeqsUpTo(DocFunctions, MaxStmts)}
        \cup Malformed

\* ------------------------------------------------------------------------
\* A fourth universe of revisions, for both implementations: definitions
\* and imports inside bodies, and a class with the name of the scope key
\* "_GLOBAL_"
\* ------------------------------------------------------------------------
\* the scope key "_GLOBAL_", which is also a valid class name
GLOBAL == 0

\* "def 2(a): ..." as written inside another body
InnerFunction == SFunctionDef(2, <<1>>, <<SExpr(1)>>)

\* "class 2: pass" as written inside a class body
InnerClass == SClassDef(2, <<SPass>>)

\* a method "def 1(self): ..."
PlainMethod == SFunctionDef(1, <<1>>, <<SExpr(1)>>)

NestedFunctionBodies == {<<SExpr(1)>>, <<InnerFunction>>, <<SImport(<<1>>)>>}

NestedClassBodies ==
    {<<SPass>>, <<PlainMethod>>, <<InnerClass, PlainMethod>>, <<PlainMethod, InnerClass>>,
     <<SImport(<<1>>)>>, <<SFunctionDef(1, <<1>>, <<InnerFunction>>)>>}

NestedStmts ==
    {SFunctionDef(n, <<>>, b) : n \in 1..2, b \in NestedFunctionBodies}
        \cup {SClassDef(1, b) : b \in NestedClassBodies}
        \cup {SClassDef(GLOBAL, b) : b \in {<<SPass>>, <<PlainMethod>>}}
        \cup {SImport(<<2>>)}

NestedSources ==
    {[malformed |-> FALSE, msg |-> 0, stmts |-> s] : s \in SeqsUpTo(NestedStmts, MaxStmts)}
        \cup Malformed

\* ------------------------------------------------------------------------
\* A fifth universe of revisions, for the pipeline variant: a text is
\* `comments` comment lines followed by its statements, so that two texts
\* can differ without their trees differing.
\* ------------------------------------------------------------------------
\* comment lines a text may begin with
MaxComment == 1

PipelineStmts ==
    {SFunctionDef(n, <<>>, b) : n \in 1..2, b \in SimpleBodies}
        \cup {SClassDef(1, b) : b \in ClassBodies}
        \cup {SExpr(2)}

PipelineSources ==
    {[malformed |-> FALSE, msg |-> 0, stmts |-> s, comments |-> c] :
        s \in SeqsUpTo(PipelineStmts, MaxStmts), c \in 0..MaxComment}
        \cup {[malformed |-> TRUE, msg |-> m, stmts |-> <<>>, comments |-> 0] : m \in 1..MaxMsg}

\* ------------------------------------------------------------------------
\* Outcomes of a call: a returned value or a raised exception
\* ------------------------------------------------------------------------
Return(v) == [raised |-> FALSE, exc |-> "", msg |-> 0, value |-> v]

Raise(e, m) == [raised |-> TRUE, exc |-> e, msg |-> m, value |-> <<>>]

NotYet == [raised |-> FALSE, exc |-> "pending", msg |-> 0, value |-> <<>>]

\* ------------------------------------------------------------------------
\* The parser (ast.parse): positions are assigned to the nodes
\* ------------------------------------------------------------------------
RECURSIVE LinesOf(_)
LinesOf(stmts) ==
    IF stmts = <<>> THEN 0
    ELSE 1 + LinesOf(Head(stmts).body) + LinesOf(Tail(stmts))

RECURSIVE ParseStmts(_, _)
ParseStmts(stmts, line) ==
    IF stmts = <<>> THEN <<>>
    ELSE LET s == Head(stmts) IN
         <<[type |-> s.type, name |-> s.name, args |-> s.args,
            body |-> ParseStmts(s.body, line + 1), names |-> s.names,
            module |-> s.module, value |-> s.value, lineno |-> line]>>
            \o ParseStmts(Tail(stmts), line + 1 + LinesOf(s.body))

ast_parse(code) ==
    IF code.malformed THEN Raise("SyntaxError", code.msg)
    ELSE Return([type |-> "Module", body |-> ParseStmts(code.stmts, 1)])

NoTree == [type |-> "Module", body |-> <<>>]

\* ------------------------------------------------------------------------
\* ast.dump: only AST nodes are accepted; positions are not included
\* ------------------------------------------------------------------------
PyObj(pytype, val) == [pytype |-> pytype, val |-> val]

RECURSIVE StripLoc(_)
StripLoc(stmts) ==
    [i \in 1..Len(stmts) |->
        [type |-> stmts[i].type, name |-> stmts[i].name, args |-> stmts[i].args,
         body |-> StripLoc(stmts[i].body), names |-> stmts[i].names,
         module |-> stmts[i].module, value |-> stmts[i].value]]

ast_dump(obj) ==
    IF obj.pytype # "AST" THEN Raise("TypeError", 0)
    ELSE IF obj.val.type = "Module"
         THEN Return([type |-> "Module", body |-> StripLoc(obj.val.body)])
         ELSE Return(StripLoc(<<obj.val>>)[1])

\* the dump "[]" of an empty statement list
EmptyListDump == <<>>

get_normalized_dump(node) ==
    LET dump == ast_dump(PyObj("list", node.body)) IN
    IF dump.raised THEN dump ELSE Return(dump.value)

\* ------------------------------------------------------------------------
\* Change records (the rendered strings carry exactly these fields)
\* ------------------------------------------------------------------------
Change(tag, kind, name, to, scope, before, after) ==
    [tag |-> tag, kind |-> kind, name |-> name, to |-> to, scope |-> scope,
     before |-> before, after |-> after]

\* f"Dependency Added: {dep}", f"{item_type} Added: {name}", ...
Rec(kind, tag, name) == Change(tag, kind, name, None, None, <<>>, <<>>)

\* f"{item_type} Renamed: '{old_name}' to '{new_name}'"
RenamedRec(kind, old_name, new_name) ==
    Change("Renamed", kind, old_name, new_name, None, <<>>, <<>>)

\* f"Syntax error in code: {e}"
SyntaxErrorRec(msg) == Change("Syntax error in code", "Error", msg, None, None, <<>>, <<>>)

\* ------------------------------------------------------------------------
\* Helpers for Python's sorted() and for the iteration order of a set
\* ------------------------------------------------------------------------
SetMin(S) == CHOOSE m \in S : \A x \in S : m <= x

RECURSIVE sorted(_)
sorted(S) == IF S = {} THEN <<>> ELSE <<SetMin(S)>> \o sorted(S \ {SetMin(S)})

\* the orders in which a for-loop may enumerate a set of str
IterOrders(S) ==
    {o \in [1..Cardinality(S) -> S] : \A i, j \in 1..Cardinality(S) : o[i] = o[j] => i = j}

Keys(d) == DOMAIN d

EmptyDict == <<>>

\* ------------------------------------------------------------------------
\* CodeVisitor of the rename-detecting implementation
\* ------------------------------------------------------------------------
CodeVisitor_init == [functions |-> EmptyDict, classes |-> EmptyDict, dependencies |-> {}]

RECURSIVE CodeVisitor_visit(_, _)
RECURSIVE CodeVisitor_generic_visit(_, _)

visit_FunctionDef(self, node) ==
    CodeVisitor_generic_visit(
        [self EXCEPT !.functions = (node.name :> node) @@ self.functions], node)

visit_ClassDef(self, node) ==
    CodeVisitor_generic_visit(
        [self EXCEPT !.classes = (node.name :> node) @@ self.classes], node)

visit_Import(self, node) ==
    [self EXCEPT !.dependencies = @ \cup {node.names[i] : i \in 1..Len(node.names)}]

\* the imported symbols are recorded instead of the module
visit_ImportFrom_symbols(self, node) ==
    [self EXCEPT !.dependencies = @ \cup {node.names[i] : i \in 1..Len(node.names)}]

visit_ImportFrom(self, node) ==
    IF node.module # None
    THEN [self EXCEPT !.dependencies = @ \cup {node.module}]
    ELSE self

CodeVisitor_visit(self, node) ==
    CASE node.type = "FunctionDef" -> visit_FunctionDef(self, node)
      [] node.type = "ClassDef" -> visit_ClassDef(self, node)
      [] node.type = "Import" -> visit_Import(self, node)
      [] node.type = "ImportFrom" -> visit_ImportFrom(self, node)
      [] OTHER -> CodeVisitor_generic_visit(self, node)

RECURSIVE VisitEach(_, _)
VisitEach(self, stmts) ==
    IF stmts = <<>> THEN self
    ELSE VisitEach(CodeVisitor_visit(self, Head(stmts)), Tail(stmts))

CodeVisitor_generic_visit(self, node) == VisitEach(self, node.body)

\* ------------------------------------------------------------------------
\* find_structure_changes of the rename-detecting implementation
\* ------------------------------------------------------------------------
RECURSIVE RenameInnerLoop(_, _, _, _, _, _, _)
RenameInnerLoop(item_type, old_name, old_body_dump, new_items, add_order, j, st) ==
    IF j > Len(add_order) THEN Return(st)
    ELSE LET new_name == add_order[j] IN
         IF new_name \in st.handled_additions
         THEN RenameInnerLoop(item_type, old_name, old_body_dump, new_items, add_order, j + 1, st)
         ELSE LET new_body_dump == get_normalized_dump(new_items[new_name]) IN
              IF new_body_dump.raised THEN new_body_dump
              ELSE IF old_body_dump = new_body_dump.value /\ old_body_dump # EmptyListDump
                   THEN Return([changes |-> Append(st.changes, RenamedRec(item_type, old_name, new_name)),
                                handled_removals |-> st.handled_removals \cup {old_name},
                                handled_additions |-> st.handled_additions \cup {new_name}])
                   ELSE RenameInnerLoop(item_type, old_name, old_body_dump, new_items,
                                        add_order, j + 1, st)

RECURSIVE RenameOuterLoop(_, _, _, _, _, _, _)
RenameOuterLoop(item_type, old_items, new_items, rem_order, add_order, i, st) ==
    IF i > Len(rem_order) THEN Return(st)
    ELSE LET old_name == rem_order[i]
             old_body_dump == get_normalized_dump(old_items[old_name])
         IN  IF old_body_dump.raised THEN old_body_dump
             ELSE LET r == RenameInnerLoop(item_type, old_name, old_body_dump.value,
                                           new_items, add_order, 1, st)
                  IN  IF r.raised THEN r
                      ELSE RenameOuterLoop(item_type, old_items, new_items, rem_order,
                                           add_order, i + 1, r.value)

Records(kind, tag, names) == [i \in 1..Len(names) |-> Rec(kind, tag, names[i])]

\* the new names are not subtracted
removed_names_all(old_items, new_items) == Keys(old_items)

removed_names(old_items, new_items) == Keys(old_items) \ Keys(new_items)

\* the old names are not subtracted
added_names_all(old_items, new_items) == Keys(new_items)

added_names(old_items, new_items) == Keys(new_items) \ Keys(old_items)

\* the Added and Removed records are written before the list so far
find_structure_changes_prepend(old_items, new_items, item_type, chg, rem_order, add_order) ==
    LET st0 == [changes |-> chg, handled_removals |-> {}, handled_additions |-> {}]
        r == RenameOuterLoop(item_type, old_items, new_items, rem_order, add_order, 1, st0)
    IN  IF r.raised THEN r
        ELSE Return(Records(item_type, "Added",
                     sorted(added_names(old_items, new_items) \ r.value.handled_additions))
                \o Records(item_type, "Removed",
                     sorted(removed_names(old_items, new_items) \ r.value.handled_removals))
                \o r.value.changes)

find_structure_changes(old_items, new_items, item_type, chg, rem_order, add_order) ==
    LET st0 == [changes |-> chg, handled_removals |-> {}, handled_additions |-> {}]
        r == RenameOuterLoop(item_type, old_items, new_items, rem_order, add_order, 1, st0)
    IN  IF r.raised THEN r
        ELSE Return(r.value.changes
                \o Records(item_type, "Added",
                     sorted(added_names(old_items, new_items) \ r.value.handled_additions))
                \o Records(item_type, "Removed",
                     sorted(removed_names(old_items, new_items) \ r.value.handled_removals)))

\* ------------------------------------------------------------------------
\* _CodeStructureVisitor of the scoped implementation
\* ------------------------------------------------------------------------
CodeStructureVisitor_init ==
    [structure |-> (GLOBAL :> EmptyDict), current_class_name |-> None]

RECURSIVE CodeStructureVisitor_visit(_, _)
RECURSIVE CodeStructureVisitor_generic_visit(_, _)

\* the class is entered without becoming the current class
CodeStructureVisitor_visit_ClassDef_unscoped(self, node) ==
    LET entered == [structure |-> (node.name :> EmptyDict) @@ self.structure,
                    current_class_name |-> self.current_class_name]
        visited == CodeStructureVisitor_generic_visit(entered, node)
    IN  [visited EXCEPT !.current_class_name = None]

CodeStructureVisitor_visit_ClassDef(self, node) ==
    LET entered == [structure |-> (node.name :> EmptyDict) @@ self.structure,
                    current_class_name |-> node.name]
        visited == CodeStructureVisitor_generic_visit(entered, node)
    IN  [visited EXCEPT !.current_class_name = None]

\* the parameter names are recorded in sorted order
process_function_sorted(self, node) ==
    LET params == sorted({node.args[i] : i \in DOMAIN node.args})
        signature == [params |-> params, lineno |-> node.lineno]
        scope == IF self.current_class_name # None THEN self.current_class_name ELSE GLOBAL
    IN  [self EXCEPT !.structure[scope] = (node.name :> signature) @@ @]

\* the position of the def is recorded with the parameters
process_function_lineno(self, node) ==
    LET params == <<node.lineno>> \o node.args
        signature == [params |-> params, lineno |-> node.lineno]
        scope == IF self.current_class_name # None THEN self.current_class_name ELSE GLOBAL
    IN  [self EXCEPT !.structure[scope] = (node.name :> signature) @@ @]

process_function(self, node) ==
    LET params == node.args
        signature == [params |-> params, lineno |-> node.lineno]
        scope == IF self.current_class_name # None THEN self.current_class_name ELSE GLOBAL
    IN  [self EXCEPT !.structure[scope] = (node.name :> signature) @@ @]

CodeStructureVisitor_visit_FunctionDef(self, node) ==
    CodeStructureVisitor_generic_visit(process_function(self, node), node)

CodeStructureVisitor_visit(self, node) ==
    CASE node.type = "ClassDef" -> CodeStructureVisitor_visit_ClassDef(self, node)
      [] node.type \in {"FunctionDef", "AsyncFunctionDef"} ->
            CodeStructureVisitor_visit_FunctionDef(self, node)
      [] OTHER -> CodeStructureVisitor_generic_visit(self, node)

RECURSIVE StructureVisitEach(_, _)
StructureVisitEach(self, stmts) ==
    IF stmts = <<>> THEN self
    ELSE StructureVisitEach(CodeStructureVisitor_visit(self, Head(stmts)), Tail(stmts))

CodeStructureVisitor_generic_visit(self, node) == StructureVisitEach(self, node.body)

\* a returned structure, or None
NoneStruct == [is_none |-> TRUE, structure |-> EmptyDict]

\* the except clause returns an empty structure in place of None
get_code_structure_empty(code_string) ==
    LET tree == ast_parse(code_string) IN
    IF tree.raised THEN [is_none |-> FALSE, structure |-> CodeStructureVisitor_init.structure]
    ELSE [is_none |-> FALSE,
          structure |-> CodeStructureVisitor_visit(CodeStructureVisitor_init, tree.value).structure]
get_code_structure(code_string) ==
    LET tree == ast_parse(code_string) IN
    IF tree.raised THEN NoneStruct
    ELSE [is_none |-> FALSE,
          structure |-> CodeStructureVisitor_visit(CodeStructureVisitor_init, tree.value).structure]

\* the constant "Error: Could not parse one or both code snippets ..."
ParseErrorRec == Change("Error", "Error", None, None, None, <<>>, <<>>)

\* f"REMOVED: Class '{class_name}' was removed.", f"ADDED: Global function ...", ...
ScopedRec(tag, kind, name, scope) == Change(tag, kind, name, None, scope, <<>>, <<>>)

\* f"MODIFIED: Signature of ... changed from {sig_before} to {sig_after}."
ModifiedRec(kind, name, scope, sig_before, sig_after) ==
    Change("MODIFIED", kind, name, None, scope, sig_before, sig_after)

ScopedRecords(tag, kind, names, scope) ==
    [i \in 1..Len(names) |-> ScopedRec(tag, kind, names[i], scope)]

RECURSIVE ModifiedRecords(_, _, _, _, _)
ModifiedRecords(kind, names, scope, before, after) ==
    IF names = <<>> THEN <<>>
    ELSE LET name == Head(names)
             sig_before == before[name].params
             sig_after == after[name].params
         IN  (IF sig_before # sig_after
              THEN <<ModifiedRec(kind, name, scope, sig_before, sig_after)>>
              ELSE <<>>)
             \o ModifiedRecords(kind, Tail(names), scope, before, after)

before_classes(sb) == Keys(sb) \ {GLOBAL}

after_classes(sa) == Keys(sa) \ {GLOBAL}

\* lines 78-82
\* only the classes removed are reported
compare_classes_removed(sb, sa) ==
    ScopedRecords("REMOVED", "Class", sorted(before_classes(sb) \ after_classes(sa)), None)
compare_classes(sb, sa) ==
    ScopedRecords("REMOVED", "Class", sorted(before_classes(sb) \ after_classes(sa)), None)
        \o ScopedRecords("ADDED", "Class", sorted(after_classes(sa) \ before_classes(sb)), None)

\* one removed and one added member with the same parameters are paired
compare_members_renames(kind, scope, before, after) ==
    LET rem == Keys(before) \ Keys(after)
        add == Keys(after) \ Keys(before)
    IN  IF /\ Cardinality(rem) = 1 /\ Cardinality(add) = 1
           /\ before[SetMin(rem)].params = after[SetMin(add)].params
        THEN <<Change("RENAMED", kind, SetMin(rem), SetMin(add), scope, <<>>, <<>>)>>
                 \o ModifiedRecords(kind, sorted(Keys(before) \cap Keys(after)),
                                    scope, before, after)
        ELSE ScopedRecords("REMOVED", kind, sorted(rem), scope)
                 \o ScopedRecords("ADDED", kind, sorted(add), scope)
                 \o ModifiedRecords(kind, sorted(Keys(before) \cap Keys(after)),
                                    scope, before, after)

\* lines 86-101, for one class
compare_members(kind, scope, before, after) ==
    ScopedRecords("REMOVED", kind, sorted(Keys(before) \ Keys(after)), scope)
        \o ScopedRecords("ADDED", kind, sorted(Keys(after) \ Keys(before)), scope)
        \o ModifiedRecords(kind, sorted(Keys(before) \cap Keys(after)), scope, before, after)

\* lines 85-101
RECURSIVE compare_methods(_, _, _)
compare_methods(class_names, sb, sa) ==
    IF class_names = <<>> THEN <<>>
    ELSE LET class_name == Head(class_names) IN
         compare_members("Method", class_name, sb[class_name], sa[class_name])
             \o compare_methods(Tail(class_names), sb, sa)

\* lines 104-119
compare_globals(sb, sa) == compare_members("Global function", None, sb[GLOBAL], sa[GLOBAL])

\* ------------------------------------------------------------------------
\* State
\* ------------------------------------------------------------------------
\* impl, old_code, new_code: the implementation called and its two arguments
\* pc: the position in the body of identify_semantic_changes
\* old_tree .. struct_after, changes: the locals of the call
\* result: what the call returned or raised
\* first, rerun: the outcome of an earlier call by the same caller, and how
\*               the present call's arguments relate to that call's
VARIABLES impl, old_code, new_code, pc, old_tree, new_tree,
          old_visitor, new_visitor, struct_before, struct_after, changes, result,
          first, rerun

vars == <<impl, old_code, new_code, pc, old_tree, new_tree,
          old_visitor, new_visitor, struct_before, struct_after, changes, result,
          first, rerun>>

inputs == <<impl, old_code, new_code, first, rerun>>

rename_locals == <<old_tree, new_tree, old_visitor, new_visitor>>

scoped_locals == <<struct_before, struct_after>>

Init ==
    /\ impl \in {"rename", "scoped"}
    /\ old_code \in Sources
    /\ new_code \in Sources
    /\ pc = IF impl = "rename" THEN "parse" ELSE "struct_before"
    /\ struct_before = NoneStruct
    /\ struct_after = NoneStruct
    /\ old_tree = NoTree
    /\ new_tree = NoTree
    /\ old_visitor = CodeVisitor_init
    /\ new_visitor = CodeVisitor_init
    /\ changes = <<>>
    /\ result = NotYet
    /\ first = NotYet
    /\ rerun = "none"

\* lines 50-55: parse both revisions, or return the one error entry
ParseBoth ==
    /\ impl = "rename" /\ pc = "parse"
    /\ LET o == ast_parse(old_code)
           n == ast_parse(new_code)
       IN  IF o.raised \/ n.raised
           THEN /\ result' = Return(<<SyntaxErrorRec(IF o.raised THEN o.msg ELSE n.msg)>>)
                /\ pc' = "done"
                /\ UNCHANGED <<old_tree, new_tree>>
           ELSE /\ old_tree' = o.value
                /\ new_tree' = n.value
                /\ pc' = "visit_old"
                /\ UNCHANGED result
    /\ UNCHANGED <<inputs, old_visitor, new_visitor, scoped_locals, changes>>

\* lines 57-58
VisitOld ==
    /\ impl = "rename" /\ pc = "visit_old"
    /\ old_visitor' = CodeVisitor_visit(CodeVisitor_init, old_tree)
    /\ pc' = "visit_new"
    /\ UNCHANGED <<inputs, old_tree, new_tree, new_visitor, scoped_locals, changes, result>>

\* lines 60-61
VisitNew ==
    /\ impl = "rename" /\ pc = "visit_new"
    /\ new_visitor' = CodeVisitor_visit(CodeVisitor_init, new_tree)
    /\ pc' = "deps"
    /\ UNCHANGED <<inputs, old_tree, new_tree, old_visitor, scoped_locals, changes, result>>

added_deps == sorted(new_visitor.dependencies \ old_visitor.dependencies)

removed_deps == sorted(old_visitor.dependencies \ new_visitor.dependencies)

\* lines 63-69
CompareDependencies ==
    /\ impl = "rename" /\ pc = "deps"
    /\ changes' = changes \o Records("Dependency", "Added", added_deps)
                          \o Records("Dependency", "Removed", removed_deps)
    /\ pc' = "functions"
    /\ UNCHANGED <<inputs, rename_locals, scoped_locals, result>>

\* line 115: find_structure_changes(functions); an exception leaves the call
\* the names paired or reported are deleted from the new revision's dict
CompareFunctions_consume ==
    /\ impl = "rename" /\ pc = "functions"
    /\ \E ro \in IterOrders(removed_names(old_visitor.functions, new_visitor.functions)),
          ao \in IterOrders(added_names(old_visitor.functions, new_visitor.functions)) :
          LET r == find_structure_changes(old_visitor.functions, new_visitor.functions,
                                          "Function", changes, ro, ao)
          IN  IF r.raised
              THEN /\ result' = r
                   /\ pc' = "done"
                   /\ UNCHANGED changes
              ELSE /\ changes' = r.value
                   /\ pc' = "classes"
                   /\ UNCHANGED result
    /\ new_visitor' =
          [new_visitor EXCEPT !.functions =
              [n \in Keys(new_visitor.functions) \cap Keys(old_visitor.functions)
                  |-> new_visitor.functions[n]]]
    /\ UNCHANGED <<inputs, old_tree, new_tree, old_visitor, scoped_locals>>
CompareFunctions ==
    /\ impl = "rename" /\ pc = "functions"
    /\ \E ro \in IterOrders(removed_names(old_visitor.functions, new_visitor.functions)),
          ao \in IterOrders(added_names(old_visitor.functions, new_visitor.functions)) :
          LET r == find_structure_changes(old_visitor.functions, new_visitor.functions,
                                          "Function", changes, ro, ao)
          IN  IF r.raised
              THEN /\ result' = r
                   /\ pc' = "done"
                   /\ UNCHANGED changes
              ELSE /\ changes' = r.value
                   /\ pc' = "classes"
                   /\ UNCHANGED result
    /\ UNCHANGED <<inputs, rename_locals, scoped_locals>>

\* lines 118-120: find_structure_changes(classes), then return changes
CompareClasses ==
    /\ impl = "rename" /\ pc = "classes"
    /\ \E ro \in IterOrders(removed_names(old_visitor.classes, new_visitor.classes)),
          ao \in IterOrders(added_names(old_visitor.classes, new_visitor.classes)) :
          LET r == find_structure_changes(old_visitor.classes, new_visitor.classes,
                                          "Class", changes, ro, ao)
          IN  IF r.raised
              THEN /\ result' = r
                   /\ UNCHANGED changes
              ELSE /\ changes' = r.value
                   /\ result' = Return(r.value)
    /\ pc' = "done"
    /\ UNCHANGED <<inputs, rename_locals, scoped_locals>>

\* scoped, line 68
GetStructBefore ==
    /\ impl = "scoped" /\ pc = "struct_before"
    /\ struct_before' = get_code_structure(old_code)
    /\ pc' = "struct_after"
    /\ UNCHANGED <<inputs, rename_locals, struct_after, changes, result>>

\* scoped, line 69
GetStructAfter ==
    /\ impl = "scoped" /\ pc = "struct_after"
    /\ struct_after' = get_code_structure(new_code)
    /\ pc' = "check"
    /\ UNCHANGED <<inputs, rename_locals, struct_before, changes, result>>

\* "and" in place of "or" in the test of line 71
CheckStructs_and ==
    /\ impl = "scoped" /\ pc = "check"
    /\ IF struct_before.is_none /\ struct_after.is_none
       THEN /\ result' = Return(<<ParseErrorRec>>)
            /\ pc' = "done"
       ELSE /\ pc' = "scoped_classes"
            /\ UNCHANGED result
    /\ UNCHANGED <<inputs, rename_locals, scoped_locals, changes>>

\* scoped, lines 71-72
CheckStructs ==
    /\ impl = "scoped" /\ pc = "check"
    /\ IF struct_before.is_none \/ struct_after.is_none
       THEN /\ result' = Return(<<ParseErrorRec>>)
            /\ pc' = "done"
       ELSE /\ pc' = "scoped_classes"
            /\ UNCHANGED result
    /\ UNCHANGED <<inputs, rename_locals, scoped_locals, changes>>

\* scoped, lines 74-82
ScopedCompareClasses ==
    /\ impl = "scoped" /\ pc = "scoped_classes"
    /\ changes' = changes \o compare_classes(struct_before.structure, struct_after.structure)
    /\ pc' = "scoped_methods"
    /\ UNCHANGED <<inputs, rename_locals, scoped_locals, result>>

\* the common classes are visited in descending order
ScopedCompareMethods_descending ==
    /\ impl = "scoped" /\ pc = "scoped_methods"
    /\ changes' = changes \o
          LET names == sorted(before_classes(struct_before.structure)
                                \cap after_classes(struct_after.structure))
          IN  compare_methods([i \in 1..Len(names) |-> names[Len(names) + 1 - i]],
                              struct_before.structure, struct_after.structure)
    /\ pc' = "scoped_globals"
    /\ UNCHANGED <<inputs, rename_locals, scoped_locals, result>>

\* scoped, lines 84-101
ScopedCompareMethods ==
    /\ impl = "scoped" /\ pc = "scoped_methods"
    /\ changes' = changes \o
          compare_methods(sorted(before_classes(struct_before.structure)
                                   \cap after_classes(struct_after.structure)),
                          struct_before.structure, struct_after.structure)
    /\ pc' = "scoped_globals"
    /\ UNCHANGED <<inputs, rename_locals, scoped_locals, result>>

\* scoped, lines 103-121
ScopedCompareGlobals ==
    /\ impl = "scoped" /\ pc = "scoped_globals"
    /\ changes' = changes \o compare_globals(struct_before.structure, struct_after.structure)
    /\ result' = Return(changes')
    /\ pc' = "done"
    /\ UNCHANGED <<inputs, rename_locals, scoped_locals>>

\* a fresh call: the locals are those of a new activation
FreshCall ==
    /\ pc' = (IF impl = "rename" THEN "parse" ELSE "struct_before")
    /\ old_tree' = NoTree
    /\ new_tree' = NoTree
    /\ old_visitor' = CodeVisitor_init
    /\ new_visitor' = CodeVisitor_init
    /\ struct_before' = NoneStruct
    /\ struct_after' = NoneStruct
    /\ changes' = <<>>
    /\ result' = NotYet

\* the caller calls identify_semantic_changes a second time, same arguments
RunAgain ==
    /\ pc = "done" /\ rerun = "none"
    /\ first' = result
    /\ rerun' = "again"
    /\ FreshCall
    /\ UNCHANGED <<impl, old_code, new_code>>

\* the caller calls identify_semantic_changes a second time, the two
\* revisions exchanged
RunSwapped ==
    /\ pc = "done" /\ rerun = "none"
    /\ first' = result
    /\ rerun' = "swapped"
    /\ old_code' = new_code
    /\ new_code' = old_code
    /\ FreshCall
    /\ UNCHANGED impl

Next ==
    \/ ParseBoth
    \/ VisitOld
    \/ VisitNew
    \/ CompareDependencies
    \/ CompareFunctions
    \/ CompareClasses
    \/ GetStructBefore
    \/ GetStructAfter
    \/ CheckStructs
    \/ ScopedCompareClasses
    \/ ScopedCompareMethods
    \/ ScopedCompareGlobals

Spec == Init /\ [][Next]_vars

NextTwice ==
    \/ Next
    \/ RunAgain
    \/ RunSwapped

\* one call followed by a second call of the same caller
SpecTwice == Init /\ [][NextTwice]_vars

\* the scoped implementation called on two revisions of the second universe
InitScoped ==
    /\ impl = "scoped"
    /\ old_code \in ScopedSources
    /\ new_code \in ScopedSources
    /\ pc = "struct_before"
    /\ struct_before = NoneStruct
    /\ struct_after = NoneStruct
    /\ old_tree = NoTree
    /\ new_tree = NoTree
    /\ old_visitor = CodeVisitor_init
    /\ new_visitor = CodeVisitor_init
    /\ changes = <<>>
    /\ result = NotYet
    /\ first = NotYet
    /\ rerun = "none"

NextScoped ==
    \/ GetStructBefore
    \/ GetStructAfter
    \/ CheckStructs
    \/ ScopedCompareClasses
    \/ ScopedCompareMethods
    \/ ScopedCompareGlobals

SpecScoped == InitScoped /\ [][NextScoped]_vars

\* the orders in which the statements of a text can be written
Reorderings(stmts) ==
    {[i \in DOMAIN stmts |-> stmts[o[i]]] : o \in IterOrders(DOMAIN stmts)}

\* the caller calls identify_semantic_changes a second time, the top-level
\* statements of one or both revisions written in another order
RunPermuted ==
    /\ pc = "done" /\ rerun = "none"
    /\ \E po \in Reorderings(old_code.stmts), pn \in Reorderings(new_code.stmts) :
          /\ po # old_code.stmts \/ pn # new_code.stmts
          /\ old_code' = [old_code EXCEPT !.stmts = po]
          /\ new_code' = [new_code EXCEPT !.stmts = pn]
    /\ first' = result
    /\ rerun' = "permuted"
    /\ FreshCall
    /\ UNCHANGED impl

NextPermuted ==
    \/ Next
    \/ RunPermuted

\* one call followed by a call on the reordered revisions
SpecPermuted == Init /\ [][NextPermuted]_vars

\* the rename-detecting implementation called on two revisions of the
\* third universe
InitDoc ==
    /\ impl = "rename"
    /\ old_code \in DocSources
    /\ new_code \in DocSources
    /\ pc = "parse"
    /\ struct_before = NoneStruct
    /\ struct_after = NoneStruct
    /\ old_tree = NoTree
    /\ new_tree = NoTree
    /\ old_visitor = CodeVisitor_init
    /\ new_visitor = CodeVisitor_init
    /\ changes = <<>>
    /\ result = NotYet
    /\ first = NotYet
    /\ rerun = "none"

NextRename ==
    \/ ParseBoth
    \/ VisitOld
    \/ VisitNew
    \/ CompareDependencies
    \/ CompareFunctions
    \/ CompareClasses

SpecDoc == InitDoc /\ [][NextRename]_vars

\* either implementation called on two revisions of the fourth universe
InitNested ==
    /\ impl \in {"rename", "scoped"}
    /\ old_code \in NestedSources
    /\ new_code \in NestedSources
    /\ pc = IF impl = "rename" THEN "parse" ELSE "struct_before"
    /\ struct_before = NoneStruct
    /\ struct_after = NoneStruct
    /\ old_tree = NoTree
    /\ new_tree = NoTree
    /\ old_visitor = CodeVisitor_init
    /\ new_visitor = CodeVisitor_init
    /\ changes = <<>>
    /\ result = NotYet
    /\ first = NotYet
    /\ rerun = "none"

SpecNested == InitNested /\ [][Next]_vars

NextScopedSwapped ==
    \/ NextScoped
    \/ RunSwapped

\* the scoped implementation called on two revisions, then on the same two
\* revisions exchanged
SpecScopedSwapped == InitScoped /\ [][NextScopedSwapped]_vars

\* ------------------------------------------------------------------------
\* The identify_semantic_changes of the semantic-analysis pipeline
\* (integration_test_1_2.py)
\* ------------------------------------------------------------------------
\* ast.parse of a text that begins with comment lines: the comments leave no
\* node and move the statements down
parse_python_code_to_ast(source_code) ==
    IF source_code.malformed THEN Raise("SyntaxError", source_code.msg)
    ELSE Return([type |-> "Module",
                 body |-> ParseStmts(source_code.stmts, 1 + source_code.comments)])

\* ast.walk below the module node: breadth first, level by level
RECURSIVE BodiesOf(_)
BodiesOf(nodes) ==
    IF nodes = <<>> THEN <<>> ELSE Head(nodes).body \o BodiesOf(Tail(nodes))

RECURSIVE ast_walk(_)
ast_walk(nodes) ==
    IF nodes = <<>> THEN <<>> ELSE nodes \o ast_walk(BodiesOf(nodes))

\* {node.name: node for node in ast.walk(tree) if isinstance(node,
\* (ast.FunctionDef, ast.ClassDef))}: the last node of a name stays
definition_nodes(tree) ==
    LET walk == SelectSeq(ast_walk(tree.body),
                          LAMBDA node : node.type \in {"FunctionDef", "ClassDef"})
        last(name) == CHOOSE i \in DOMAIN walk :
                          /\ walk[i].name = name
                          /\ \A j \in DOMAIN walk : walk[j].name = name => j <= i
    IN  [name \in {walk[i].name : i \in DOMAIN walk} |-> walk[last(name)]]

\* "Class" if isinstance(node, ast.ClassDef) else "Function"
node_type(node) == IF node.type = "ClassDef" THEN "Class" ELSE "Function"

\* f"{node_type} '{item}' was added.", "... was removed."
PipelineRecords(tag, nodes, items) ==
    [i \in 1..Len(items) |-> Rec(node_type(nodes[items[i]]), tag, items[i])]

PipelineSyntaxErrorRec == Change("Error", "Syntax", None, None, None, <<>>, <<>>)

\* "Minor non-functional change detected (e.g., docstrings, comments)."
MinorChangeRec == Change("Notice", "Minor", None, None, None, <<>>, <<>>)

\* "Non-semantic change detected (e.g., whitespace)."
NonSemanticRec == Change("Notice", "Non-semantic", None, None, None, <<>>, <<>>)

\* lines 28-33
PipelineParse ==
    /\ impl = "pipeline" /\ pc = "pipeline_parse"
    /\ LET o == parse_python_code_to_ast(old_code)
           n == parse_python_code_to_ast(new_code)
       IN  IF o.raised \/ n.raised
           THEN /\ result' = Return(<<PipelineSyntaxErrorRec>>)
                /\ pc' = "done"
                /\ UNCHANGED <<old_tree, new_tree>>
           ELSE /\ old_tree' = o.value
                /\ new_tree' = n.value
                /\ pc' = "pipeline_added_removed"
                /\ UNCHANGED result
    /\ UNCHANGED <<inputs, old_visitor, new_visitor, scoped_locals, changes>>

\* lines 35-48; the two key differences are sets, enumerated in any order
PipelineAddedRemoved ==
    /\ impl = "pipeline" /\ pc = "pipeline_added_removed"
    /\ LET old_nodes == definition_nodes(old_tree)
           new_nodes == definition_nodes(new_tree)
       IN  \E added \in IterOrders(Keys(new_nodes) \ Keys(old_nodes)),
              removed \in IterOrders(Keys(old_nodes) \ Keys(new_nodes)) :
               changes' = changes \o PipelineRecords("added", new_nodes, added)
                                  \o PipelineRecords("removed", old_nodes, removed)
    /\ pc' = "pipeline_modified"
    /\ UNCHANGED <<inputs, rename_locals, scoped_locals, result>>

\* lines 50-57: ast.dump is given old_node.body, a list, for the first name
\* that both revisions define, and its exception leaves the call
PipelineModified ==
    /\ impl = "pipeline" /\ pc = "pipeline_modified"
    /\ LET old_nodes == definition_nodes(old_tree)
           new_nodes == definition_nodes(new_tree)
           common == Keys(old_nodes) \cap Keys(new_nodes)
       IN  IF common # {}
           THEN LET name == CHOOSE n \in common : TRUE
                    dump == ast_dump(PyObj("list", old_nodes[name].body))
                IN  /\ result' = dump
                    /\ pc' = "done"
           ELSE /\ pc' = "pipeline_fallbacks"
                /\ UNCHANGED result
    /\ UNCHANGED <<inputs, rename_locals, scoped_locals, changes>>

\* lines 59-67
PipelineFallbacks ==
    /\ impl = "pipeline" /\ pc = "pipeline_fallbacks"
    /\ LET minor == IF changes = <<>>
                       /\ ast_dump(PyObj("AST", old_tree)) # ast_dump(PyObj("AST", new_tree))
                    THEN <<MinorChangeRec>> ELSE <<>>
           whitespace == IF changes \o minor = <<>> /\ old_code # new_code
                         THEN <<NonSemanticRec>> ELSE <<>>
       IN  /\ changes' = changes \o minor \o whitespace
           /\ result' = Return(changes \o minor \o whitespace)
    /\ pc' = "done"
    /\ UNCHANGED <<inputs, rename_locals, scoped_locals>>

InitPipeline ==
    /\ impl = "pipeline"
    /\ old_code \in PipelineSources
    /\ new_code \in PipelineSources
    /\ pc = "pipeline_parse"
    /\ struct_before = NoneStruct
    /\ struct_after = NoneStruct
    /\ old_tree = NoTree
    /\ new_tree = NoTree
    /\ old_visitor = CodeVisitor_init
    /\ new_visitor = CodeVisitor_init
    /\ changes = <<>>
    /\ result = NotYet
    /\ first = NotYet
    /\ rerun = "none"

NextPipeline ==
    \/ PipelineParse
    \/ PipelineAddedRemoved
    \/ PipelineModified
    \/ PipelineFallbacks

SpecPipeline == InitPipeline /\ [][NextPipeline]_vars

\* ------------------------------------------------------------------------
\* Vocabulary of the properties
\* ------------------------------------------------------------------------
Finished == pc = "done"

BothParse == ~old_code.malformed /\ ~new_code.malformed

OneMalformed == old_code.malformed # new_code.malformed

Range(seq) == {seq[i] : i \in DOMAIN seq}

Kinds == {"Function", "Class"}

\* the declarations of one kind the extraction found in a revision
OldItems(kind) == IF kind = "Function" THEN old_visitor.functions ELSE old_visitor.classes

NewItems(kind) == IF kind = "Function" THEN new_visitor.functions ELSE new_visitor.classes

OnlyOld(kind) == {n \in DOMAIN OldItems(kind) : n \notin DOMAIN NewItems(kind)}

OnlyNew(kind) == {n \in DOMAIN NewItems(kind) : n \notin DOMAIN OldItems(kind)}

\* body fingerprint: the statement list without positions
Fingerprint(node) == StripLoc(node.body)

\* the trivial body: a lone pass statement
IsTrivialBody(node) == Len(node.body) = 1 /\ node.body[1].type = "Pass"

\* r (only old) and a (only new) have the same non-trivial body
Candidates(kind, r, a) ==
    /\ Fingerprint(OldItems(kind)[r]) = Fingerprint(NewItems(kind)[a])
    /\ ~IsTrivialBody(OldItems(kind)[r])

\* how many records of the returned list satisfy a test
CountOut(Test(_)) == Cardinality({i \in DOMAIN result.value : Test(result.value[i])})

\* the module names imported at the top level of a revision
SrcDeps(code) ==
    UNION {IF code.stmts[i].type = "Import" THEN Range(code.stmts[i].names)
           ELSE IF code.stmts[i].type = "ImportFrom" /\ code.stmts[i].module # None
                THEN {code.stmts[i].module}
                ELSE {} : i \in DOMAIN code.stmts}

DepsAdded == SrcDeps(new_code) \ SrcDeps(old_code)

DepsRemoved == SrcDeps(old_code) \ SrcDeps(new_code)

\* out begins with the Added records of DepsAdded, ascending, then the
\* Removed records of DepsRemoved, ascending, and has no other dependency record
DependencyPrefix(out) ==
    LET nA == Cardinality(DepsAdded)
        nR == Cardinality(DepsRemoved)
    IN  /\ Len(out) >= nA + nR
        /\ \A i \in 1..nA :
              /\ out[i].kind = "Dependency" /\ out[i].tag = "Added"
              /\ out[i].name \in DepsAdded
              /\ i < nA => out[i].name < out[i + 1].name
        /\ \A i \in (nA + 1)..(nA + nR) :
              /\ out[i].kind = "Dependency" /\ out[i].tag = "Removed"
              /\ out[i].name \in DepsRemoved
              /\ i < nA + nR => out[i].name < out[i + 1].name
        /\ \A i \in (nA + nR + 1)..Len(out) : out[i].kind # "Dependency"

\* the pairing the lexical policy prescribes: removed names ascending, each
\* taking the smallest candidate not yet consumed
RECURSIVE LexPairing(_, _, _)
LexPairing(kind, removed, consumed) ==
    IF removed = <<>> THEN {}
    ELSE LET r == Head(removed)
             cands == {a \in OnlyNew(kind) \ consumed : Candidates(kind, r, a)}
         IN  IF cands = {} THEN LexPairing(kind, Tail(removed), consumed)
             ELSE {<<r, SetMin(cands)>>}
                    \cup LexPairing(kind, Tail(removed), consumed \cup {SetMin(cands)})

RenamedPairs(kind) ==
    {<<result.value[i].name, result.value[i].to>> :
        i \in {j \in DOMAIN result.value :
                 result.value[j].kind = kind /\ result.value[j].tag = "Renamed"}}

\* ------------------------------------------------------------------------
\* Properties
\* ------------------------------------------------------------------------

\* C1: a revision that parses, diffed against itself, gives the empty list
\* (either implementation): the call returns, and returns no record.
C1_NoOpIdempotence ==
    (Finished /\ ~old_code.malformed /\ old_code = new_code) => result = Return(<<>>)

C1_Witness ==
    /\ Finished /\ impl = "rename" /\ ~old_code.malformed /\ old_code = new_code
    /\ DOMAIN old_visitor.functions # {}
    /\ DOMAIN old_visitor.classes # {}
    /\ result = Return(<<>>)

\* C2: (rename-detecting diff) for two declarations of one kind, one only in
\* the old and one only in the new revision, with the same non-trivial body,
\* the returned list has exactly one Renamed record for the pair and not both
\* an Added record for the new and a Removed record for the old name.
C2_RenameDetection ==
    (impl = "rename" /\ Finished /\ BothParse) =>
        \A kind \in Kinds : \A r \in OnlyOld(kind), a \in OnlyNew(kind) :
            Candidates(kind, r, a) =>
                /\ ~result.raised
                /\ CountOut(LAMBDA x : x = RenamedRec(kind, r, a)) = 1
                /\ ~(/\ Rec(kind, "Added", a) \in Range(result.value)
                     /\ Rec(kind, "Removed", r) \in Range(result.value))

\* C3: (rename-detecting diff) two declarations of one kind, one only old and
\* one only new, both with the trivial body, are never paired as Renamed: the
\* returned list has one Removed record for the old and one Added record for
\* the new name.
C3_TrivialBodyExclusion ==
    (impl = "rename" /\ Finished /\ BothParse) =>
        \A kind \in Kinds : \A r \in OnlyOld(kind), a \in OnlyNew(kind) :
            (IsTrivialBody(OldItems(kind)[r]) /\ IsTrivialBody(NewItems(kind)[a])) =>
                /\ ~result.raised
                /\ RenamedRec(kind, r, a) \notin Range(result.value)
                /\ CountOut(LAMBDA x : x = Rec(kind, "Removed", r)) = 1
                /\ CountOut(LAMBDA x : x = Rec(kind, "Added", a)) = 1

C5_RenameConsumption ==
    (impl = "rename" /\ Finished /\ BothParse) =>
        \A kind \in Kinds :
            /\ \A r \in OnlyOld(kind) :
                  /\ ~result.raised
                  /\ CountOut(LAMBDA x : /\ x.kind = kind
                                         /\ x.tag \in {"Removed", "Renamed"}
                                         /\ x.name = r) = 1
            /\ \A a \in OnlyNew(kind) :
                  /\ ~result.raised
                  /\ CountOut(LAMBDA x : /\ x.kind = kind
                                         /\ \/ x.tag = "Added" /\ x.name = a
                                            \/ x.tag = "Renamed" /\ x.to = a) = 1

\* C6: (rename-detecting diff) every Renamed record, in the list being built
\* or in the returned list, pairs a name only in the old revision with a name
\* only in the new one, of the record's kind, with equal non-trivial bodies,
\* and no name is in two Renamed records.
C6_RenameSoundness ==
    impl = "rename" =>
        \A out \in {changes, result.value} : \A i \in DOMAIN out :
            out[i].tag = "Renamed" =>
                /\ out[i].kind \in Kinds
                /\ out[i].name \in OnlyOld(out[i].kind)
                /\ out[i].to \in OnlyNew(out[i].kind)
                /\ Candidates(out[i].kind, out[i].name, out[i].to)
                /\ \A j \in DOMAIN out :
                      (j # i /\ out[j].tag = "Renamed" /\ out[j].kind = out[i].kind) =>
                          out[j].name # out[i].name /\ out[j].to # out[i].to

\* a state in which a Renamed record exists
C6_RenamedEmitted ==
    \E out \in {changes, result.value} : \E i \in DOMAIN out : out[i].tag = "Renamed"

\* C7: (rename-detecting diff) when removed and added declarations of one
\* kind are rename candidates, the Renamed records of that kind are those of
\* the lexical policy: removed names ascending, each taking the smallest
\* added candidate not yet consumed.
C7_PairingPolicy ==
    (impl = "rename" /\ Finished /\ BothParse) =>
        \A kind \in Kinds :
            (\E r \in OnlyOld(kind), a \in OnlyNew(kind) : Candidates(kind, r, a)) =>
                /\ ~result.raised
                /\ RenamedPairs(kind) = LexPairing(kind, sorted(OnlyOld(kind)), {})

\* C8: (rename-detecting diff) once the dependency comparison has run, the
\* list of changes begins with one Dependency Added record per module name
\* the new revision imports and the old does not, ascending, then one
\* Dependency Removed record per name the old imports and the new does not,
\* ascending; no other record is a dependency record; a from-import counts by
\* its module. The returned list begins the same way.
C8_DependencyDiff ==
    (impl = "rename" /\ pc \in {"functions", "classes", "done"} /\ BothParse) =>
        /\ DependencyPrefix(changes)
        /\ (Finished /\ ~result.raised) => DependencyPrefix(result.value)

C8_Witness ==
    /\ impl = "rename" /\ Finished /\ ~result.raised
    /\ Cardinality(DepsAdded) = 2
    /\ DepsRemoved # {}
    /\ \E i \in DOMAIN new_code.stmts :
          /\ new_code.stmts[i].type = "ImportFrom"
          /\ new_code.stmts[i].module \in DepsAdded
          /\ Range(new_code.stmts[i].names) \cap DepsAdded = {}
    /\ Len(result.value) = 3

\* C9: if a revision fails to parse, the call returns exactly one error entry
\* and no change record, and no step of the diff is ever taken.
C9_SyntaxErrorResult ==
    (old_code.malformed \/ new_code.malformed) =>
        /\ changes = <<>>
        /\ pc \in {"parse", "struct_before", "struct_after", "check", "done"}
        /\ Finished =>
              /\ ~result.raised
              /\ Len(result.value) = 1
              /\ result.value[1].kind = "Error"

C9_Witness ==
    /\ Finished /\ impl = "scoped"
    /\ ~old_code.malformed /\ old_code.stmts # <<>>
    /\ new_code.malformed
    /\ Len(result.value) = 1

\* C10: when exactly one revision fails to parse, the result tells which:
\* the call with the two revisions exchanged gives a different result.
C10_ErrorAttribution ==
    (Finished /\ rerun = "swapped" /\ OneMalformed) => first # result

\* C11: when both revisions parse, the call returns a list of change records:
\* it raises nothing, and no entry of the returned list is an error entry.
C11_Totality ==
    (Finished /\ BothParse) =>
        /\ ~result.raised
        /\ \A i \in DOMAIN result.value : result.value[i].kind # "Error"

\* ------------------------------------------------------------------------
\* Vocabulary of the scoped properties: the declarations as the source text
\* of a revision shows them
\* ------------------------------------------------------------------------
SetMax(S) == CHOOSE m \in S : \A x \in S : x <= m

\* the names the statements of one type declare
DeclNames(stmts, type) == {stmts[i].name : i \in {j \in DOMAIN stmts : stmts[j].type = type}}

\* the declaration in force: the last statement of that type and name
LastDecl(stmts, type, name) ==
    stmts[SetMax({i \in DOMAIN stmts : stmts[i].type = type /\ stmts[i].name = name})]

SrcClasses(code) == DeclNames(code.stmts, "ClassDef")

\* the statements of a scope: the module's, or those of a class body
ScopeStmts(code, scope) ==
    IF scope = None THEN code.stmts ELSE LastDecl(code.stmts, "ClassDef", scope).body

SrcFunctions(code, scope) == DeclNames(ScopeStmts(code, scope), "FunctionDef")

SrcParams(code, scope, name) == LastDecl(ScopeStmts(code, scope), "FunctionDef", name).args

\* the scopes both revisions have: the module (None) and the common classes
CommonScopes == {None} \cup (SrcClasses(old_code) \cap SrcClasses(new_code))

MemberKind(scope) == IF scope = None THEN "Global function" ELSE "Method"

\* the functions of a scope that both revisions declare, with different
\* ordered parameter lists
SignatureChanged(scope) ==
    {n \in SrcFunctions(old_code, scope) \cap SrcFunctions(new_code, scope) :
        SrcParams(old_code, scope, n) # SrcParams(new_code, scope, n)}

\* the records of the returned list that are about a member of a scope
MemberRecords(scope) ==
    SelectSeq(result.value,
              LAMBDA x : x.kind = MemberKind(scope) /\ x.scope = scope)

\* the records of the returned list that are about a class or its members
ClassRecords(class_name) ==
    SelectSeq(result.value,
              LAMBDA x : \/ x.kind = "Class" /\ x.name = class_name
                         \/ x.kind = "Method" /\ x.scope = class_name)

\* C12: (scoped diff) the MODIFIED records of the returned list are, for each
\* scope both revisions have, one record per function declared in that scope
\* in both revisions with different ordered parameter lists, in ascending
\* name order, carrying the old and the new list; there is no other MODIFIED
\* record. A class in which only one method's parameter list differs has
\* that one record and no other.
C12_SignatureComparison ==
    (impl = "scoped" /\ Finished /\ BothParse) =>
        /\ \A scope \in CommonScopes :
              LET names == sorted(SignatureChanged(scope)) IN
              SelectSeq(MemberRecords(scope), LAMBDA x : x.tag = "MODIFIED")
                  = [i \in 1..Len(names) |->
                        ModifiedRec(MemberKind(scope), names[i], scope,
                                    SrcParams(old_code, scope, names[i]),
                                    SrcParams(new_code, scope, names[i]))]
        /\ \A i \in DOMAIN result.value :
              result.value[i].tag = "MODIFIED" =>
                  /\ result.value[i].scope \in CommonScopes
                  /\ result.value[i].kind = MemberKind(result.value[i].scope)
        /\ \A c \in CommonScopes \ {None} :
              (/\ SrcFunctions(old_code, c) = SrcFunctions(new_code, c)
               /\ Cardinality(SignatureChanged(c)) = 1)
                  => /\ Len(ClassRecords(c)) = 1
                     /\ ClassRecords(c)[1].tag = "MODIFIED"

C12_Witness ==
    /\ impl = "scoped" /\ Finished /\ BothParse
    /\ 1 \in CommonScopes
    /\ Cardinality(SrcFunctions(old_code, 1)) = 2
    /\ SrcFunctions(new_code, 1) = SrcFunctions(old_code, 1)
    /\ ClassRecords(1) = <<ModifiedRec("Method", 1, 1, <<1>>, <<1, 2>>)>>
    /\ MemberRecords(None)
          = <<ModifiedRec("Global function", 1, None, <<1, 2>>, <<2, 1>>),
              ModifiedRec("Global function", 2, None, <<1>>, <<1, 2>>)>>

\* the positions of the returned list holding a record of one kind
Positions(kind) == {i \in DOMAIN result.value : result.value[i].kind = kind}

\* in the returned list the method records are grouped by class, the
\* classes in ascending order
ClassScopesAscending ==
    \A i, j \in Positions("Method") :
        i < j => result.value[i].scope <= result.value[j].scope

ClassesOnlyOld == SrcClasses(old_code) \ SrcClasses(new_code)

ClassesOnlyNew == SrcClasses(new_code) \ SrcClasses(old_code)

\* every record of the returned list about a function is about a method of
\* a class both revisions declare, or about a function one of the revisions
\* declares at the top level
FunctionRecordsJustified ==
    \A i \in DOMAIN result.value :
        LET x == result.value[i] IN
        /\ x.kind = "Method" => x.scope \in CommonScopes \ {None}
        /\ x.kind = "Global function" =>
              x.name \in SrcFunctions(old_code, None) \cup SrcFunctions(new_code, None)

\* C14: (scoped diff) a class only the old revision declares has exactly one
\* record in the returned list, its class-level REMOVED record; a class only
\* the new revision declares has exactly its class-level ADDED record; none
\* of the methods of such a class has a record, whatever their number.
C14_ClassInOneRevision ==
    (impl = "scoped" /\ Finished /\ BothParse) =>
        /\ \A c \in ClassesOnlyOld :
              ClassRecords(c) = <<ScopedRec("REMOVED", "Class", c, None)>>
        /\ \A c \in ClassesOnlyNew :
              ClassRecords(c) = <<ScopedRec("ADDED", "Class", c, None)>>
        /\ (ClassesOnlyOld \cup ClassesOnlyNew # {}) => FunctionRecordsJustified

C14_Witness ==
    /\ impl = "scoped" /\ Finished /\ BothParse
    /\ ClassesOnlyOld = {1} /\ ClassesOnlyNew = {2}
    /\ Cardinality(SrcFunctions(old_code, 1)) = 2
    /\ Cardinality(SrcFunctions(new_code, 2)) = 1
    /\ result.value = <<ScopedRec("REMOVED", "Class", 1, None),
                        ScopedRec("ADDED", "Class", 2, None)>>

\* how many statements of a list equal x
Occurrences(stmts, x) == Cardinality({i \in DOMAIN stmts : stmts[i] = x})

\* the two lists hold the same statements, in whatever order
SameStatements(a, b) ==
    \A x \in Range(a) \cup Range(b) : Occurrences(a, x) = Occurrences(b, x)

\* the list without its i-th statement
RemoveAt(stmts, i) == SubSeq(stmts, 1, i - 1) \o SubSeq(stmts, i + 1, Len(stmts))

\* the old revision's i-th statement declares a class with a method, and the
\* new revision is the old one without that statement, possibly reordered
ClassWithMethodsRemoved(i) ==
    /\ old_code.stmts[i].type = "ClassDef"
    /\ DeclNames(old_code.stmts[i].body, "FunctionDef") # {}
    /\ old_code.stmts[i].name \notin SrcClasses(new_code)
    /\ SameStatements(RemoveAt(old_code.stmts, i), new_code.stmts)

\* C15: (rename-detecting diff) when the new revision is the old one without
\* one class that has methods, the call returns the list holding the Class
\* Removed record of that class and nothing else: no Function Removed record
\* for its methods.
C15_ClassRemoval ==
    (impl = "rename" /\ Finished /\ BothParse) =>
        \A i \in DOMAIN old_code.stmts :
            ClassWithMethodsRemoved(i) =>
                result = Return(<<Rec("Class", "Removed", old_code.stmts[i].name)>>)

\* no two top-level function or class definitions of the text share a name
DistinctTopLevel(code) ==
    \A i, j \in DOMAIN code.stmts :
        (/\ i # j
         /\ code.stmts[i].type \in {"FunctionDef", "ClassDef"}
         /\ code.stmts[j].type \in {"FunctionDef", "ClassDef"})
            => code.stmts[i].name # code.stmts[j].name

\* C16: (either implementation) when no two top-level declarations of a
\* revision share a name, the call on the revisions with their top-level
\* statements (declarations and imports) reordered has the outcome of the
\* call on the revisions as they were: the same list in the same order.
C16_OrderInvariance ==
    (Finished /\ rerun = "permuted"
        /\ DistinctTopLevel(old_code) /\ DistinctTopLevel(new_code))
            => result = first

C16_Witness ==
    /\ Finished /\ rerun = "permuted" /\ impl = "rename"
    /\ DistinctTopLevel(old_code) /\ DistinctTopLevel(new_code)
    /\ Len(old_code.stmts) = 2 /\ old_code.stmts[1] # old_code.stmts[2]
    /\ Len(new_code.stmts) = 2 /\ new_code.stmts[1] # new_code.stmts[2]
    /\ {old_code.stmts[1].type, old_code.stmts[2].type} = {"Import", "FunctionDef"}
    /\ {new_code.stmts[1].type, new_code.stmts[2].type} = {"ClassDef", "FunctionDef"}
    /\ ~result.raised /\ Len(result.value) = 2
    /\ result = first

\* the place of a record's group in the order: the dependency records, then
\* Renamed, Added, Removed of Function, then Renamed, Added, Removed of Class
GroupRank(x) ==
    IF x.kind = "Dependency" THEN 0
    ELSE (IF x.kind = "Function" THEN 0 ELSE 3)
         + (CASE x.tag = "Renamed" -> 1 [] x.tag = "Added" -> 2 [] x.tag = "Removed" -> 3)

\* the groups follow one another in that order, and inside a group of Added
\* or of Removed records of a kind the names ascend
GroupsInOrder(out) ==
    \A i, j \in DOMAIN out :
        i < j =>
            /\ GroupRank(out[i]) <= GroupRank(out[j])
            /\ (/\ GroupRank(out[i]) = GroupRank(out[j])
                /\ out[i].kind \in Kinds
                /\ out[i].tag \in {"Added", "Removed"}) => out[i].name < out[j].name

DocstringOnlyDiffers(x, y) ==
    LET bx == Fingerprint(x)
        by == Fingerprint(y)
    IN  /\ Len(bx) >= 1 /\ bx[1].type = "Docstring"
        /\ Len(by) >= 1 /\ by[1].type = "Docstring"
        /\ bx[1].value # by[1].value
        /\ Tail(bx) = Tail(by)

\* C18: (rename-detecting diff) for a function only in the old revision and
\* a function only in the new revision whose bodies differ only in the text
\* of the docstring, the call returns a list with no Renamed record for the
\* pair, in which the Function Added record of the new name comes before the
\* Function Removed record of the old name.
C18_DocstringBlocksRename ==
    (impl = "rename" /\ Finished /\ BothParse) =>
        \A r \in OnlyOld("Function"), a \in OnlyNew("Function") :
            DocstringOnlyDiffers(old_visitor.functions[r], new_visitor.functions[a]) =>
                /\ ~result.raised
                /\ RenamedRec("Function", r, a) \notin Range(result.value)
                /\ \E i, j \in DOMAIN result.value :
                      /\ i < j
                      /\ result.value[i] = Rec("Function", "Added", a)
                      /\ result.value[j] = Rec("Function", "Removed", r)

\* the names the text declares with statements of one type, at the top
\* level or inside a body
RECURSIVE DeclaredAnywhere(_, _)
DeclaredAnywhere(stmts, type) ==
    DeclNames(stmts, type)
        \cup UNION {DeclaredAnywhere(stmts[i].body, type) : i \in DOMAIN stmts}

StmtType(kind) == IF kind = "Function" THEN "FunctionDef" ELSE "ClassDef"

\* the names of one kind both revisions declare
DeclaredInBoth(kind) ==
    DeclaredAnywhere(old_code.stmts, StmtType(kind))
        \cap DeclaredAnywhere(new_code.stmts, StmtType(kind))

\* C19: (rename-detecting diff) a function, or a class, that both revisions
\* declare under the same name is in no record of its kind, neither in the
\* list being built nor in a returned list, whatever the two bodies are.
C19_SameNameNoRecord ==
    (impl = "rename" /\ BothParse) =>
        \A kind \in Kinds : \A n \in DeclaredInBoth(kind) :
            \A out \in {changes, result.value} : \A i \in DOMAIN out :
                out[i].kind = kind => (out[i].name # n /\ out[i].to # n)

C19_Witness ==
    /\ impl = "rename" /\ Finished /\ BothParse /\ ~result.raised
    /\ \E i \in DOMAIN old_code.stmts, j \in DOMAIN new_code.stmts :
          /\ old_code.stmts[i].type = "FunctionDef"
          /\ new_code.stmts[j].type = "FunctionDef"
          /\ old_code.stmts[i].name = new_code.stmts[j].name
          /\ old_code.stmts[i].body # new_code.stmts[j].body
    /\ DeclaredInBoth("Class") # {}
    /\ Len(new_code.stmts) = 2
    /\ result.value = <<>>

\* the declaration of a function in a scope of a revision, without positions
SrcFunction(code, scope, name) == LastDecl(ScopeStmts(code, scope), "FunctionDef", name)

\* C20: (scoped diff) no record of the returned list is a rename: each is a
\* REMOVED, an ADDED or a MODIFIED record naming one declaration. A global
\* function or a method only the old revision declares and one only the new
\* revision declares in the same scope, with the same parameters and body,
\* have exactly one REMOVED record for the old and one ADDED record for the
\* new name; so have a class only in the old and a class only in the new
\* revision with the same body.
C20_RenameAsRemovedAdded ==
    (impl = "scoped" /\ Finished /\ BothParse) =>
        /\ \A i \in DOMAIN result.value :
              /\ result.value[i].tag \in {"REMOVED", "ADDED", "MODIFIED"}
              /\ result.value[i].to = None
        /\ \A scope \in CommonScopes :
              \A r \in SrcFunctions(old_code, scope) \ SrcFunctions(new_code, scope),
                 a \in SrcFunctions(new_code, scope) \ SrcFunctions(old_code, scope) :
                  (/\ SrcFunction(old_code, scope, r).args = SrcFunction(new_code, scope, a).args
                   /\ SrcFunction(old_code, scope, r).body = SrcFunction(new_code, scope, a).body)
                      => /\ CountOut(LAMBDA x : x.kind = MemberKind(scope) /\ x.scope = scope
                                               /\ x.name = r) = 1
                         /\ CountOut(LAMBDA x : x.kind = MemberKind(scope) /\ x.scope = scope
                                               /\ x.name = a) = 1
                         /\ CountOut(LAMBDA x : x = ScopedRec("REMOVED", MemberKind(scope),
                                                              r, scope)) = 1
                         /\ CountOut(LAMBDA x : x = ScopedRec("ADDED", MemberKind(scope),
                                                              a, scope)) = 1
        /\ \A r \in ClassesOnlyOld, a \in ClassesOnlyNew :
              ScopeStmts(old_code, r) = ScopeStmts(new_code, a)
                  => /\ ClassRecords(r) = <<ScopedRec("REMOVED", "Class", r, None)>>
                     /\ ClassRecords(a) = <<ScopedRec("ADDED", "Class", a, None)>>

C20_Witness ==
    /\ impl = "scoped" /\ Finished /\ BothParse
    /\ ClassesOnlyOld = {1} /\ ClassesOnlyNew = {2}
    /\ ScopeStmts(old_code, 1) = ScopeStmts(new_code, 2)
    /\ SrcFunctions(old_code, 1) # {}
    /\ SrcFunctions(old_code, None) = {1} /\ SrcFunctions(new_code, None) = {2}
    /\ SrcParams(old_code, None, 1) = SrcParams(new_code, None, 2)
    /\ result.value = <<ScopedRec("REMOVED", "Class", 1, None),
                        ScopedRec("ADDED", "Class", 2, None),
                        ScopedRec("REMOVED", "Global function", 1, None),
                        ScopedRec("ADDED", "Global function", 2, None)>>

\* the steps of the call after which the extraction of a revision is done
AfterExtraction ==
    IF impl = "rename" THEN {"deps", "functions", "classes", "done"}
    ELSE {"check", "scoped_classes", "scoped_methods", "scoped_globals", "done"}

\* C21: from the moment the two revisions are extracted, through every step
\* of the diff and after it (a raised exception included), the old and the
\* new extraction hold what the extraction produced: the declaration maps
\* and dependency sets of the rename-detecting diff, the structures of the
\* scoped diff.
C21_InputsNotMutated ==
    (BothParse /\ pc \in AfterExtraction) =>
        IF impl = "rename"
        THEN /\ old_visitor = CodeVisitor_visit(CodeVisitor_init, ast_parse(old_code).value)
             /\ new_visitor = CodeVisitor_visit(CodeVisitor_init, ast_parse(new_code).value)
        ELSE /\ struct_before = get_code_structure(old_code)
             /\ struct_after = get_code_structure(new_code)

\* the pairing loop of the functions was entered, with names on both sides
C21_Witness ==
    /\ impl = "rename" /\ Finished /\ BothParse
    /\ OnlyOld("Function") # {} /\ OnlyNew("Function") # {}
    /\ Keys(old_visitor.classes) # {}
    /\ new_visitor.dependencies # {}

\* the scopes (None for the module, or a class name) whose statements
\* declare a function of that name
ScopesOf(code, name) ==
    {scope \in {None} \cup SrcClasses(code) : name \in SrcFunctions(code, scope)}

MethodsUnderTheirClass(code, st) ==
    /\ \A c \in SrcClasses(code) :
          /\ c \in Keys(st)
          /\ \A f \in SrcFunctions(code, c) :
                /\ f \in Keys(st[c])
                /\ f \in Keys(st[GLOBAL]) => f \in SrcFunctions(code, None)
    /\ \A f \in SrcFunctions(code, None) :
          /\ f \in Keys(st[GLOBAL])
          /\ \A c \in SrcClasses(code) :
                f \in Keys(st[c]) => f \in SrcFunctions(code, c)

\* C23: (scoped diff) in the structure extracted from a revision, every
\* function written directly in the body of a top-level class C is recorded
\* in scope C and not in the Global scope, wherever it stands in the body,
\* and every top-level function is recorded in the Global scope and in no
\* class scope. (Revisions with a class of the Global key's own name are the
\* subject of C29 and left aside here.)
C23_MethodsUnderTheirClass ==
    impl = "scoped" =>
        /\ (~struct_before.is_none /\ GLOBAL \notin SrcClasses(old_code))
              => MethodsUnderTheirClass(old_code, struct_before.structure)
        /\ (~struct_after.is_none /\ GLOBAL \notin SrcClasses(new_code))
              => MethodsUnderTheirClass(new_code, struct_after.structure)

\* no class body of the text holds a class definition
NoNestedClass(code) ==
    \A i \in DOMAIN code.stmts :
        code.stmts[i].type = "ClassDef" => DeclNames(code.stmts[i].body, "ClassDef") = {}

\* the key under which the structure holds a scope
ScopeKey(scope) == IF scope = None THEN GLOBAL ELSE scope

\* what C24 says of the structure st extracted from a revision: each scope
\* holds the functions written directly in it, with the parameters written
\* there, and nothing else
OnlyDirectFunctions(code, st) ==
    \A scope \in {None} \cup SrcClasses(code) :
        /\ Keys(st[ScopeKey(scope)]) = SrcFunctions(code, scope)
        /\ \A f \in SrcFunctions(code, scope) :
              st[ScopeKey(scope)][f].params = SrcParams(code, scope, f)

\* the functions written at the top level or directly in a class body
DirectFunctions(code) ==
    DeclNames(code.stmts, "FunctionDef")
        \cup UNION {DeclNames(code.stmts[i].body, "FunctionDef") :
                      i \in {j \in DOMAIN code.stmts : code.stmts[j].type = "ClassDef"}}

\* C24: a function written inside the body of another function or method is
\* no declaration. In the structure of the scoped diff every scope holds
\* exactly the functions written directly in it, each with its own
\* parameters (a nested function of the same name does not replace them);
\* the functions dict of the rename-detecting diff holds no function that is
\* written only inside a function body. (Revisions with a nested class or a
\* class of the Global key's name are the subject of C23 and C29.)
C24_NestedFunctionsIgnored ==
    /\ (impl = "scoped" /\ ~struct_before.is_none /\ NoNestedClass(old_code)
            /\ GLOBAL \notin SrcClasses(old_code))
          => OnlyDirectFunctions(old_code, struct_before.structure)
    /\ (impl = "rename" /\ BothParse /\ pc \in AfterExtraction)
          => Keys(old_visitor.functions) \subseteq DirectFunctions(old_code)

\* the Dependency records of a list, as (tag, name) pairs
DependencyRecords(out) ==
    {<<out[i].tag, out[i].name>> : i \in {j \in DOMAIN out : out[j].kind = "Dependency"}}

\* C25: only the import statements at the top level of a revision make its
\* dependencies: after the visits each visitor's dependency set is the set
\* of modules imported at the top level of its revision, and the dependency
\* records written are exactly the Added records of the top-level imports
\* only the new revision has and the Removed records of those only the old
\* revision has; an import inside a function or class body changes neither.
C25_TopLevelImportsOnly ==
    (impl = "rename" /\ BothParse /\ pc \in AfterExtraction) =>
        /\ old_visitor.dependencies = SrcDeps(old_code)
        /\ new_visitor.dependencies = SrcDeps(new_code)
        /\ pc # "deps" =>
              DependencyRecords(changes) =
                  {<<"Added", d>> : d \in DepsAdded} \cup {<<"Removed", d>> : d \in DepsRemoved}

\* no function body of the text, at the top level or in a class, holds a
\* function definition
NoNestedFunction(code) ==
    \A i \in DOMAIN code.stmts :
        /\ code.stmts[i].type = "FunctionDef" =>
              DeclNames(code.stmts[i].body, "FunctionDef") = {}
        /\ code.stmts[i].type = "ClassDef" =>
              \A k \in DOMAIN code.stmts[i].body :
                  code.stmts[i].body[k].type = "FunctionDef" =>
                      DeclNames(code.stmts[i].body[k].body, "FunctionDef") = {}

\* C29: the structure always has a Global scope entry, and no class
\* definition, whatever its name, discards or alters what the Global scope
\* holds: every function written at the top level of a revision is a key of
\* the Global entry of the structure extracted from it, with the parameters
\* of its last top-level definition.
C29_GlobalScopeKept ==
    impl = "scoped" =>
        /\ ~struct_before.is_none =>
              /\ GLOBAL \in Keys(struct_before.structure)
              /\ \A f \in SrcFunctions(old_code, None) :
                    /\ f \in Keys(struct_before.structure[GLOBAL])
                    /\ NoNestedFunction(old_code) =>
                          struct_before.structure[GLOBAL][f].params = SrcParams(old_code, None, f)
        /\ ~struct_after.is_none =>
              /\ GLOBAL \in Keys(struct_after.structure)
              /\ \A f \in SrcFunctions(new_code, None) :
                    /\ f \in Keys(struct_after.structure[GLOBAL])
                    /\ NoNestedFunction(new_code) =>
                          struct_after.structure[GLOBAL][f].params = SrcParams(new_code, None, f)

RenameFingerprints(kind) ==
    {Fingerprint(OldItems(kind)[r]) : r \in {n \in OnlyOld(kind) : ~IsTrivialBody(OldItems(kind)[n])}}
        \cup {Fingerprint(NewItems(kind)[a]) : a \in {n \in OnlyNew(kind) : ~IsTrivialBody(NewItems(kind)[n])}}

Min(a, b) == IF a <= b THEN a ELSE b

\* how many pairs one fingerprint allows: the smaller of the numbers of
\* removed and of added names having it
PairsOf(kind, fp) ==
    Min(Cardinality({r \in OnlyOld(kind) : Fingerprint(OldItems(kind)[r]) = fp}),
        Cardinality({a \in OnlyNew(kind) : Fingerprint(NewItems(kind)[a]) = fp}))

RECURSIVE SumPairs(_, _)
SumPairs(kind, fps) ==
    IF fps = {} THEN 0
    ELSE LET fp == CHOOSE x \in fps : TRUE
         IN  PairsOf(kind, fp) + SumPairs(kind, fps \ {fp})

ExpectedRenames(kind) == SumPairs(kind, RenameFingerprints(kind))

\* C28: (rename-detecting diff) for each kind the returned list holds as many
\* Renamed records as the sum, over the non-trivial body fingerprints, of the
\* smaller of the numbers of removed and of added names with that
\* fingerprint, in whatever order the two name sets are iterated; the
\* Removed and Added records of the kind are then the remaining names.
C28_RenameCount ==
    (impl = "rename" /\ Finished /\ BothParse) =>
        \A kind \in Kinds :
            /\ ~result.raised
            /\ CountOut(LAMBDA x : x.kind = kind /\ x.tag = "Renamed") = ExpectedRenames(kind)
            /\ CountOut(LAMBDA x : x.kind = kind /\ x.tag = "Removed")
                  = Cardinality(OnlyOld(kind)) - ExpectedRenames(kind)
            /\ CountOut(LAMBDA x : x.kind = kind /\ x.tag = "Added")
                  = Cardinality(OnlyNew(kind)) - ExpectedRenames(kind)

\* a record read from the other side: ADDED and REMOVED exchanged, and the
\* parameter lists before and after exchanged
Mirror(rec) ==
    [rec EXCEPT !.tag = IF @ = "ADDED" THEN "REMOVED"
                        ELSE IF @ = "REMOVED" THEN "ADDED" ELSE @,
                !.before = rec.after,
                !.after = rec.before]

\* C30: (scoped diff) the call with the two revisions exchanged returns the
\* mirror image of the first call's list: as many records, every ADDED
\* record of one list a REMOVED record of the other for the same name and
\* scope and the reverse, and every signature record of one list in the
\* other with its parameter lists before and after exchanged.
C30_MirrorSymmetry ==
    (impl = "scoped" /\ Finished /\ rerun = "swapped") =>
        /\ ~first.raised /\ ~result.raised
        /\ Len(result.value) = Len(first.value)
        /\ \A i \in DOMAIN first.value :
              Occurrences(result.value, Mirror(first.value[i]))
                  = Occurrences(first.value, first.value[i])
        /\ \A j \in DOMAIN result.value :
              Occurrences(first.value, Mirror(result.value[j]))
                  = Occurrences(result.value, result.value[j])

C30_Witness ==
    /\ impl = "scoped" /\ Finished /\ rerun = "swapped" /\ BothParse
    /\ \E i, j, k \in DOMAIN first.value :
          /\ first.value[i].tag = "ADDED" /\ first.value[i].kind = "Class"
          /\ first.value[j].tag = "REMOVED" /\ first.value[j].kind = "Global function"
          /\ first.value[k].tag = "MODIFIED"
          /\ first.value[k].before # first.value[k].after
    /\ result.value # first.value

\* C27: (pipeline variant) when the two revisions parse to the same tree and
\* the new text differs from the old only by an added comment, the call
\* returns the empty report.
C27_CommentOnlyChange ==
    (/\ impl = "pipeline" /\ Finished /\ BothParse
     /\ old_code.stmts = new_code.stmts
     /\ new_code.comments > old_code.comments)
        => result = Return(<<>>)
====
